---- MODULE Spec2Model ----
\* A model of the PLY reader of src/src/main.rs: the header grammar (format,
\* comment, element, property, data_type, header) and the body decoder
\* (ascii_value, value, body), written over byte sequences.  A byte is a
\* one-character string; bytes outside the text range are written "0x00",
\* "0x80".  A parser takes the input and the 1-based index of the next byte and
\* returns [st, pos, val]: st is the IResult variant ("Done", "Error",
\* "Incomplete"), or "Panic" where the code aborts (unwrap, unimplemented!).
\* The nom combinators are modelled as nom 1.x defines them.
EXTENDS Integers, Sequences, FiniteSets, TLC

VARIABLES
    lines,   \* the pieces the input was written from (header lines, tokens)
    input,   \* the byte buffer handed to the parser under test
    kind,    \* the ValueKind handed to ascii_value, the DataType a spelling stands for
    pc,      \* position of main: "start", "parsed", "failed", "decoded", ...
    hres,    \* result of header(input)
    bres,    \* result of body(remaining, header), or of the parser under test
    rres     \* result of parsing the re-serialized Header

vars == <<lines, input, kind, pc, hres, bres, rres>>

\* ---------------------------------------------------------------- bytes
Lower == {"a","b","c","d","e","f","g","h","i","j","k","l","m",
          "n","o","p","q","r","s","t","u","v","w","x","y","z"}
Upper == {"A","B","C","D","E","F","G","H","I","J","K","L","M",
          "N","O","P","Q","R","S","T","U","V","W","X","Y","Z"}
Digits == {"0","1","2","3","4","5","6","7","8","9"}

\* nom::is_space: space or tab
SpaceBytes == {" ", "\t"}
\* the bytes nom::multispace accepts
MultispaceBytes == SpaceBytes \cup {"\r", "\n"}
\* the bytes nom::not_line_ending stops at
LineEndingBytes == {"\r", "\n"}
\* bytes that are not valid UTF-8 on their own (a lone continuation byte)
NonUtf8Bytes == {"0x80"}

DigitVal(c) ==
    CASE c = "0" -> 0 [] c = "1" -> 1 [] c = "2" -> 2 [] c = "3" -> 3
      [] c = "4" -> 4 [] c = "5" -> 5 [] c = "6" -> 6 [] c = "7" -> 7
      [] c = "8" -> 8 [] c = "9" -> 9

DigitChar(d) ==
    CASE d = 0 -> "0" [] d = 1 -> "1" [] d = 2 -> "2" [] d = 3 -> "3"
      [] d = 4 -> "4" [] d = 5 -> "5" [] d = 6 -> "6" [] d = 7 -> "7"
      [] d = 8 -> "8" [] d = 9 -> "9"

Min(a, b) == IF a < b THEN a ELSE b

\* the bytes of in from index p on
Rest(in, p) == SubSeq(in, p, Len(in))

RECURSIVE Flatten(_)
Flatten(ss) == IF ss = <<>> THEN <<>> ELSE Head(ss) \o Flatten(Tail(ss))

\* ---------------------------------------------------------------- IResult
Done(p, v) == [st |-> "Done", pos |-> p, val |-> v]
Error(p) == [st |-> "Error", pos |-> p, val |-> <<>>]
Incomplete(p) == [st |-> "Incomplete", pos |-> p, val |-> <<>>]
Panic(p) == [st |-> "Panic", pos |-> p, val |-> <<>>]
\* a failed step of chain! ends the chain with the step's variant
Fail(r) == [st |-> r.st, pos |-> r.pos, val |-> <<>>]

\* alt! of two parsers: the first that is Done
OrElse(a, b, p) == IF a.st = "Done" THEN a ELSE IF b.st = "Done" THEN b ELSE Error(p)

\* ---------------------------------------------------------------- nom
\* first index i >= p with i > Len(in) or in[i] \notin S
RECURSIVE ScanWhile(_, _, _)
ScanWhile(in, p, S) ==
    IF p > Len(in) \/ in[p] \notin S THEN p ELSE ScanWhile(in, p + 1, S)

\* first index i >= p with i > Len(in) or in[i] \in S
RECURSIVE ScanUntil(_, _, _)
ScanUntil(in, p, S) ==
    IF p > Len(in) \/ in[p] \in S THEN p ELSE ScanUntil(in, p + 1, S)

\* tag!: compares the common prefix; a proper prefix of the tag is Incomplete
tag(in, p, t) ==
    LET len == Len(in) - p + 1
        blen == Len(t)
        m == Min(len, blen)
    IN  IF SubSeq(in, p, p + m - 1) # SubSeq(t, 1, m) THEN Error(p)
        ELSE IF m < blen THEN Incomplete(p)
        ELSE Done(p + blen, t)

\* alt!: the first alternative of alts, from index i on, whose tag is Done
RECURSIVE alt_tags(_, _, _, _)
alt_tags(in, p, alts, i) ==
    IF i > Len(alts) THEN Error(p)
    ELSE LET r == tag(in, p, alts[i][1])
         IN  IF r.st = "Done" THEN Done(r.pos, alts[i][2])
             ELSE alt_tags(in, p, alts, i + 1)

\* multispace: the whole run of space, tab, CR, LF; an error when the first
\* byte is none of them
multispace(in, p) ==
    LET e == ScanWhile(in, p, MultispaceBytes)
    IN  IF e = p /\ p <= Len(in) THEN Error(p) ELSE Done(e, SubSeq(in, p, e - 1))

\* digit: the whole run of decimal digits
digit(in, p) ==
    LET e == ScanWhile(in, p, Digits)
    IN  IF e = p /\ p <= Len(in) THEN Error(p) ELSE Done(e, SubSeq(in, p, e - 1))

\* not_line_ending: everything up to the first CR or LF (possibly nothing)
not_line_ending(in, p) ==
    LET e == ScanUntil(in, p, LineEndingBytes)
    IN  Done(e, SubSeq(in, p, e - 1))

\* is_not!(b" \n"): everything up to the first byte of S; an error when the
\* first byte is in S
is_not(in, p, S) ==
    LET e == ScanUntil(in, p, S)
    IN  IF e = p /\ p <= Len(in) THEN Error(p) ELSE Done(e, SubSeq(in, p, e - 1))

\* std::str::from_utf8 succeeds
from_utf8_ok(bs) == \A i \in 1..Len(bs) : bs[i] \notin NonUtf8Bytes

\* map_res!(.., from_utf8) on the result r of a parser run at p
from_utf8(r, p) == IF r.st = "Done" /\ ~from_utf8_ok(r.val) THEN Error(p) ELSE r

\* ---------------------------------------------------------------- integers
RECURSIVE DecValue(_)
DecValue(ds) ==
    IF ds = <<>> THEN 0 ELSE DecValue(SubSeq(ds, 1, Len(ds) - 1)) * 10 + DigitVal(ds[Len(ds)])

RECURSIVE StripZeros(_)
StripZeros(ds) ==
    IF Len(ds) > 1 /\ ds[1] = "0" THEN StripZeros(Tail(ds)) ELSE ds

\* a < b for digit strings of the same length
RECURSIVE DecLess(_, _)
DecLess(a, b) ==
    IF a = <<>> THEN FALSE
    ELSE IF a[1] # b[1] THEN DigitVal(a[1]) < DigitVal(b[1])
    ELSE DecLess(Tail(a), Tail(b))

I32Max == <<"2", "1", "4", "7", "4", "8", "3", "6", "4", "7">>
I64Max == <<"9", "2", "2", "3", "3", "7", "2", "0", "3", "6", "8", "5", "4", "7", "7", "5", "8", "0", "7">>

\* str::parse for i32 / i64 on a run of digits: Err on the empty string and
\* on overflow (max is the type's largest value, in decimal)
str_parse_ok(ds, max) ==
    LET sig == StripZeros(ds)
    IN  /\ ds # <<>>
        /\ \/ Len(sig) < Len(max)
           \/ Len(sig) = Len(max) /\ ~DecLess(max, sig)

\* map_res!(map_res!(digit, from_utf8), str::parse)
parse_int(in, p, max) ==
    LET d == digit(in, p)
    IN  IF d.st # "Done" THEN Fail(d)
        ELSE IF ~str_parse_ok(d.val, max) THEN Error(p)
        ELSE Done(d.pos, DecValue(d.val))

parse_i32(in, p) == parse_int(in, p, I32Max)
parse_i64(in, p) == parse_int(in, p, I64Max)

\* ---------------------------------------------------------------- chain!
\* the named parsers of the grammar, by name (defined after them)
RECURSIVE Parser(_, _, _)

\* the steps of a chain!: tag!(t), a named parser, map_res!(parser, from_utf8)
Tag(t) == [step |-> "tag", t |-> t]
Call(name) == [step |-> "call", name |-> name]
Utf8(name) == [step |-> "utf8", name |-> name]

RunStep(in, p, st) ==
    IF st.step = "tag" THEN tag(in, p, st.t)
    ELSE IF st.step = "utf8" THEN from_utf8(Parser(st.name, in, p), p)
    ELSE Parser(st.name, in, p)

\* s.out collects the output of every step
Start(p) == [st |-> "Done", pos |-> p, out |-> <<>>]
Merge(s, r) ==
    [st |-> r.st, pos |-> r.pos,
     out |-> IF r.st = "Done" THEN Append(s.out, r.val) ELSE <<>>]

\* the steps from the i-th on, in order; a failed step ends the chain
RECURSIVE RunChain(_, _, _, _)
RunChain(in, s, steps, i) ==
    IF i > Len(steps) \/ s.st # "Done" THEN s
    ELSE RunChain(in, Merge(s, RunStep(in, s.pos, steps[i])), steps, i + 1)

Chain(in, p, steps) == RunChain(in, Start(p), steps, 1)

\* the closure of chain!: the value v built from the outputs
Return(s, v) == IF s.st # "Done" THEN Fail(s) ELSE Done(s.pos, v)

\* many0! / many1! of a named parser: the loop stops at an Error and at a
\* parser that consumed nothing, and hands on Incomplete
RECURSIVE Many(_, _, _, _)
ManyNext(name, in, p, acc, r) ==
    IF r.st = "Incomplete" THEN Incomplete(p)
    ELSE IF r.st # "Done" \/ r.pos = p THEN Done(p, acc)
    ELSE Many(name, in, r.pos, Append(acc, r.val))
Many(name, in, p, acc) ==
    IF p > Len(in) THEN Done(p, acc) ELSE ManyNext(name, in, p, acc, Parser(name, in, p))

many0(name, in, p) == Many(name, in, p, <<>>)

ManyFirst(name, in, r) ==
    IF r.st # "Done" THEN Fail(r) ELSE Many(name, in, r.pos, <<r.val>>)
many1(name, in, p) == ManyFirst(name, in, Parser(name, in, p))

\* ---------------------------------------------------------------- header grammar
Version(s) == Return(s, [major |-> s.out[1], minor |-> s.out[3]])

format_version(in, p) ==
    Version(Chain(in, p, << Call("i32"), Tag(<<".">>), Call("i32") >>))

\* the alternatives of the format kind, in source order
FormatKindTags == <<
    <<<<"a", "s", "c", "i", "i">>, "Ascii">>,
    <<<<"b", "i", "n", "a", "r", "y", "_", "b", "i", "g", "_", "e", "n", "d", "i", "a", "n">>, "BigEndian">>,
    <<<<"b", "i", "n", "a", "r", "y", "_", "l", "i", "t", "t", "l", "e", "_", "e", "n", "d", "i", "a", "n">>, "LittleEndian">> >>

format_kind(in, p) == alt_tags(in, p, FormatKindTags, 1)

Format(s) == Return(s, [kind |-> s.out[3], version |-> s.out[5]])

format(in, p) ==
    Format(Chain(in, p, << Tag(<<"f", "o", "r", "m", "a", "t">>), Call("multispace"), Call("format_kind"),
                           Call("multispace"), Call("format_version"),
                           Call("multispace") >>))

ValueKind == {"Int8", "UInt8", "Int16", "UInt16", "Int32", "UInt32",
              "Int64", "UInt64", "Float32", "Float64"}

IdentifierBytes == Lower \cup Upper \cup {"_"}

is_identifier(a) == a \in IdentifierBytes

\* take_while1!(is_identifier)
identifier(in, p) ==
    LET e == ScanWhile(in, p, IdentifierBytes)
    IN  IF e = p THEN Error(p) ELSE Done(e, SubSeq(in, p, e - 1))

\* a variant of DataTypeTags: the alternatives in the order of the spelling
\* table, each bare alias before its sized spellings
DataTypeTagsTableOrder == <<
    <<<<"c", "h", "a", "r">>, "Int8">>, <<<<"i", "n", "t", "8">>, "Int8">>, <<<<"u", "c", "h", "a", "r">>, "UInt8">>, <<<<"u", "i", "n", "t", "8">>, "UInt8">>,
    <<<<"s", "h", "o", "r", "t">>, "Int16">>, <<<<"i", "n", "t", "1", "6">>, "Int16">>, <<<<"u", "s", "h", "o", "r", "t">>, "UInt16">>, <<<<"u", "i", "n", "t", "1", "6">>, "UInt16">>,
    <<<<"i", "n", "t">>, "Int32">>, <<<<"i", "n", "t", "3", "2">>, "Int32">>, <<<<"u", "i", "n", "t">>, "UInt32">>, <<<<"u", "i", "n", "t", "3", "2">>, "UInt32">>,
    <<<<"i", "n", "t", "6", "4">>, "Int64">>, <<<<"u", "i", "n", "t", "6", "4">>, "UInt64">>,
    <<<<"f", "l", "o", "a", "t">>, "Float32">>, <<<<"f", "l", "o", "a", "t", "3", "2">>, "Float32">>,
    <<<<"d", "o", "u", "b", "l", "e">>, "Float64">>, <<<<"f", "l", "o", "a", "t", "6", "4">>, "Float64">> >>

\* the alternatives of data_type, in source order
DataTypeTags == <<
    <<<<"c", "h", "a", "r">>, "Int8">>, <<<<"u", "c", "h", "a", "r">>, "UInt8">>,
    <<<<"s", "h", "o", "r", "t">>, "Int16">>, <<<<"u", "s", "h", "o", "r", "t">>, "UInt16">>,
    <<<<"i", "n", "t", "6", "4">>, "Int64">>, <<<<"i", "n", "t", "3", "2">>, "Int32">>, <<<<"i", "n", "t", "1", "6">>, "Int16">>,
    <<<<"i", "n", "t", "8">>, "Int8">>, <<<<"i", "n", "t">>, "Int32">>,
    <<<<"u", "i", "n", "t", "8">>, "UInt8">>, <<<<"u", "i", "n", "t", "1", "6">>, "UInt16">>, <<<<"u", "i", "n", "t", "3", "2">>, "UInt32">>,
    <<<<"u", "i", "n", "t", "6", "4">>, "UInt64">>, <<<<"u", "i", "n", "t">>, "UInt32">>,
    <<<<"f", "l", "o", "a", "t", "3", "2">>, "Float32">>, <<<<"f", "l", "o", "a", "t", "6", "4">>, "Float64">>, <<<<"f", "l", "o", "a", "t">>, "Float32">>,
    <<<<"d", "o", "u", "b", "l", "e">>, "Float64">> >>

\* a variant of data_type: any other identifier is read as Float32
data_type_defaulting(in, p) ==
    LET r == alt_tags(in, p, DataTypeTags, 1)
        n == identifier(in, p)
    IN  IF r.st = "Done" THEN r
        ELSE IF n.st = "Done" THEN Done(n.pos, "Float32")
        ELSE Error(p)

data_type(in, p) == alt_tags(in, p, DataTypeTags, 1)

\* map!(data_type, |d| PropertyKind::Scalar(d))
Scalar(r) == IF r.st # "Done" THEN r ELSE Done(r.pos, <<"Scalar", r.val>>)
List(s) == Return(s, <<"List", s.out[3], s.out[5]>>)

\* the list alternative of the property kind
property_list(in, p) ==
    List(Chain(in, p, << Tag(<<"l", "i", "s", "t">>), Call("multispace"), Call("data_type"),
                           Call("multispace"), Call("data_type") >>))

\* alt!(list chain | map!(data_type, Scalar))
property_kind(in, p) == OrElse(property_list(in, p), Scalar(data_type(in, p)), p)

Property(s) == Return(s, [name |-> s.out[5], kind |-> s.out[3]])

property(in, p) ==
    Property(Chain(in, p, << Tag(<<"p", "r", "o", "p", "e", "r", "t", "y">>), Call("multispace"), Call("property_kind"),
                           Call("multispace"), Utf8("identifier"),
                           Call("multispace") >>))

\* a variant of many1_property: many0!, an element may have no property
many0_property(in, p) == many0("property", in, p)

many1_property(in, p) == many1("property", in, p)

Element(s) ==
    Return(s, [name |-> s.out[3], count |-> s.out[5], properties |-> s.out[7]])

element(in, p) ==
    Element(Chain(in, p, << Tag(<<"e", "l", "e", "m", "e", "n", "t">>), Call("multispace"), Utf8("identifier"),
                           Call("multispace"), Call("i64"), Call("multispace"),
                           Call("many1_property") >>))

many1_element(in, p) == many1("element", in, p)

Comment(s) == Return(s, s.out[3])
CommentKept(s) == Return(s, s.out[2])

\* a variant of comment: no multispace between the tag and the text, which
\* then keeps the separating whitespace
comment_keeping_whitespace(in, p) ==
    CommentKept(Chain(in, p, << Tag(<<"c", "o", "m", "m", "e", "n", "t">>), Utf8("not_line_ending"),
                           Call("multispace") >>))

comment(in, p) ==
    Comment(Chain(in, p, << Tag(<<"c", "o", "m", "m", "e", "n", "t">>), Call("multispace"), Utf8("not_line_ending"),
                           Call("multispace") >>))

many0_comment(in, p) == many0("comment", in, p)

Header(s) ==
    Return(s, [comments |-> s.out[4], format |-> s.out[3], elements |-> s.out[5]])
HeaderWithLateComments(s) ==
    Return(s, [comments |-> s.out[4] \o s.out[6], format |-> s.out[3],
               elements |-> s.out[5]])

\* a variant of header: comments are accepted after the elements too
header_comments_anywhere(in, p) ==
    HeaderWithLateComments(Chain(in, p, << Tag(<<"p", "l", "y">>), Call("multispace"), Call("format"),
                           Call("many0_comment"), Call("many1_element"),
                           Call("many0_comment"),
                           Tag(<<"e", "n", "d", "_", "h", "e", "a", "d", "e", "r">>), Call("multispace") >>))

\* a variant of header: end_header is followed by one line feed, not multispace
header_one_line_terminator(in, p) ==
    Header(Chain(in, p, << Tag(<<"p", "l", "y">>), Call("multispace"), Call("format"),
                           Call("many0_comment"), Call("many1_element"),
                           Tag(<<"e", "n", "d", "_", "h", "e", "a", "d", "e", "r">>), Tag(<<"\n">>) >>))

header(in, p) ==
    Header(Chain(in, p, << Tag(<<"p", "l", "y">>), Call("multispace"), Call("format"),
                           Call("many0_comment"), Call("many1_element"),
                           Tag(<<"e", "n", "d", "_", "h", "e", "a", "d", "e", "r">>), Call("multispace") >>))

\* is_not!(b" \n")
token(in, p) == is_not(in, p, {" ", "\n"})

Parser(name, in, p) ==
    CASE name = "multispace" -> multispace(in, p)
      [] name = "not_line_ending" -> not_line_ending(in, p)
      [] name = "identifier" -> identifier(in, p)
      [] name = "token" -> token(in, p)
      [] name = "i32" -> parse_i32(in, p)
      [] name = "i64" -> parse_i64(in, p)
      [] name = "format_version" -> format_version(in, p)
      [] name = "format_kind" -> format_kind(in, p)
      [] name = "data_type" -> data_type(in, p)
      [] name = "property_kind" -> property_kind(in, p)
      [] name = "property" -> property(in, p)
      [] name = "many1_property" -> many1_property(in, p)
      [] name = "element" -> element(in, p)
      [] name = "many1_element" -> many1_element(in, p)
      [] name = "comment" -> comment(in, p)
      [] name = "many0_comment" -> many0_comment(in, p)
      [] name = "format" -> format(in, p)

\* ---------------------------------------------------------------- body decoder
\* f32::from_str on a token: optional sign, digits, optional '.' and digits,
\* at least one digit (the decimal literals; tokens of the model carry no
\* exponent).  [ok, val]: val is the number as mantissa and decimal scale.
RECURSIVE StripTrailingZeros(_)
StripTrailingZeros(ds) ==
    IF ds # <<>> /\ ds[Len(ds)] = "0" THEN StripTrailingZeros(SubSeq(ds, 1, Len(ds) - 1))
    ELSE ds

f32_from_str(tok) ==
    LET signed == tok # <<>> /\ tok[1] \in {"+", "-"}
        s == IF signed THEN Tail(tok) ELSE tok
        i == ScanWhile(s, 1, Digits)
        int == SubSeq(s, 1, i - 1)
        dot == i <= Len(s) /\ s[i] = "."
        j == IF dot THEN ScanWhile(s, i + 1, Digits) ELSE i
        frac == IF dot THEN StripTrailingZeros(SubSeq(s, i + 1, j - 1)) ELSE <<>>
        ok == j = Len(s) + 1 /\ (i > 1 \/ j > i + 1)
    IN  [ok |-> ok,
         val |-> IF ok THEN [neg |-> signed /\ tok[1] = "-",
                             mant |-> DecValue(int \o frac),
                             scale |-> Len(frac)]
                 ELSE <<>>]

\* f32::from_str(out).unwrap()
unwrap(p, f) == IF f.ok THEN Done(p, [kind |-> "Float32", v |-> f.val]) ELSE Panic(p)

\* the match on the token of ascii_value
ascii_match(s, value_kind) ==
    IF s.st # "Done" THEN Fail(s)
    ELSE IF value_kind = "Float32" THEN unwrap(s.pos, f32_from_str(s.out[1]))
    ELSE Panic(s.pos)                                          \* unimplemented!()

ascii_value(in, p, value_kind) ==
    ascii_match(Chain(in, p, << Utf8("token"), Call("multispace") >>), value_kind)

value(in, p, fk, value_kind) ==
    IF fk = "Ascii" THEN ascii_value(in, p, value_kind)
    ELSE Panic(p)                                              \* unimplemented!()

\* body: the loops over the first element's records and properties only print;
\* the result is the one value decoded after them
body(in, p, h) == value(in, p, h.format.kind, "Float32")

\* ---------------------------------------------------------------- canonical text
RECURSIVE ToDec(_)
ToDec(n) == IF n < 10 THEN <<DigitChar(n)>> ELSE ToDec(n \div 10) \o <<DigitChar(n % 10)>>

FormatKindText(k) ==
    CASE k = "Ascii" -> <<"a", "s", "c", "i", "i">>
      [] k = "BigEndian" -> <<"b", "i", "n", "a", "r", "y", "_", "b", "i", "g", "_", "e", "n", "d", "i", "a", "n">>
      [] k = "LittleEndian" -> <<"b", "i", "n", "a", "r", "y", "_", "l", "i", "t", "t", "l", "e", "_", "e", "n", "d", "i", "a", "n">>

DataTypeText(t) ==
    CASE t = "Int8" -> <<"i", "n", "t", "8">> [] t = "UInt8" -> <<"u", "i", "n", "t", "8">>
      [] t = "Int16" -> <<"i", "n", "t", "1", "6">> [] t = "UInt16" -> <<"u", "i", "n", "t", "1", "6">>
      [] t = "Int32" -> <<"i", "n", "t", "3", "2">> [] t = "UInt32" -> <<"u", "i", "n", "t", "3", "2">>
      [] t = "Int64" -> <<"i", "n", "t", "6", "4">> [] t = "UInt64" -> <<"u", "i", "n", "t", "6", "4">>
      [] t = "Float32" -> <<"f", "l", "o", "a", "t", "3", "2">> [] t = "Float64" -> <<"f", "l", "o", "a", "t", "6", "4">>

PropertyText(pr) ==
    <<"p", "r", "o", "p", "e", "r", "t", "y", " ">> \o
    (IF pr.kind[1] = "List"
     THEN <<"l", "i", "s", "t", " ">> \o DataTypeText(pr.kind[2]) \o <<" ">> \o DataTypeText(pr.kind[3])
     ELSE DataTypeText(pr.kind[2]))
    \o <<" ">> \o pr.name \o <<"\n">>

ElementText(el) ==
    <<"e", "l", "e", "m", "e", "n", "t", " ">> \o el.name \o <<" ">> \o ToDec(el.count) \o <<"\n">>
    \o Flatten([i \in 1..Len(el.properties) |-> PropertyText(el.properties[i])])

\* ply, the format line, one comment line per comment, the element and property
\* lines in order, end_header
Serialize(h) ==
    <<"p", "l", "y", "\n">>
    \o <<"f", "o", "r", "m", "a", "t", " ">> \o FormatKindText(h.format.kind) \o <<" ">>
    \o ToDec(h.format.version.major) \o <<".">> \o ToDec(h.format.version.minor) \o <<"\n">>
    \o Flatten([i \in 1..Len(h.comments) |-> <<"c", "o", "m", "m", "e", "n", "t", " ">> \o h.comments[i] \o <<"\n">>])
    \o Flatten([i \in 1..Len(h.elements) |-> ElementText(h.elements[i])])
    \o <<"e", "n", "d", "_", "h", "e", "a", "d", "e", "r", "\n">>

\* ---------------------------------------------------------------- inputs
MaxLines == 4

Line(k, text) == [k |-> k, text |-> text]

FormatLines == {
    Line("format", <<"f", "o", "r", "m", "a", "t", " ", "a", "s", "c", "i", "i", " ", "1", ".", "0", "\n">>),
    Line("format", <<"f", "o", "r", "m", "a", "t", " ", " ", "b", "i", "n", "a", "r", "y", "_", "b", "i", "g", "_", "e", "n", "d", "i", "a", "n", "\t", "0", "1", ".", "0", "0", "\r", "\n">>),
    Line("format", <<"f", "o", "r", "m", "a", "t", " ", "b", "i", "n", "a", "r", "y", "_", "l", "i", "t", "t", "l", "e", "_", "e", "n", "d", "i", "a", "n", " ", "1", ".", "0", "\n">>),
    Line("format_unknown", <<"f", "o", "r", "m", "a", "t", " ", "a", "s", "c", "i", "i", "z", " ", "1", ".", "0", "\n">>) }

HeaderLines == {
    Line("comment", <<"c", "o", "m", "m", "e", "n", "t", " ", "a", " ", " ", "b", " ", "\n">>),
    Line("element", <<"e", "l", "e", "m", "e", "n", "t", " ", "v", " ", "2", "\n">>),
    Line("element", <<"e", "l", "e", "m", "e", "n", "t", "\t", "f", " ", " ", "0", "\r", "\n">>),
    Line("property", <<"p", "r", "o", "p", "e", "r", "t", "y", " ", "f", "l", "o", "a", "t", " ", "x", "\n">>),
    Line("property", <<"p", "r", "o", "p", "e", "r", "t", "y", " ", "l", "i", "s", "t", " ", "u", "c", "h", "a", "r", " ", "i", "n", "t", " ", "v", "i", "\n">>),
    Line("property_unknown", <<"p", "r", "o", "p", "e", "r", "t", "y", " ", "h", "a", "l", "f", " ", "x", "\n">>),
    Line("property_unknown", <<"p", "r", "o", "p", "e", "r", "t", "y", " ", "i", "n", "t", "1", "2", "8", " ", "x", "\n">>) }

Bodies == {
    <<>>,
    <<"1", ".", "0", " ", "2", ".", "0", "\n">>,
    <<"a", "b", "c", "\n">>,
    <<"0x00", "0x80">>,
    <<"\n", " ", "0x00", "0x00", "0x80", "?">> }

RECURSIVE SeqsUpTo(_, _)
SeqsUpTo(S, n) ==
    IF n = 0 THEN {<<>>}
    ELSE LET shorter == SeqsUpTo(S, n - 1)
         IN  shorter \cup {Append(s, x) : s \in {t \in shorter : Len(t) = n - 1}, x \in S}

Text(ls) == Flatten([i \in 1..Len(ls) |-> ls[i].text])

\* ---------------------------------------------------------------- main
Init ==
    /\ \E f \in FormatLines, ls \in SeqsUpTo(HeaderLines, MaxLines), b \in Bodies :
          /\ lines = <<f>> \o ls
          /\ input = <<"p", "l", "y", "\n">> \o Text(<<f>> \o ls) \o <<"e", "n", "d", "_", "h", "e", "a", "d", "e", "r", "\n">> \o b
    /\ kind = "none"
    /\ pc = "start"
    /\ hres = <<>>
    /\ bres = <<>>
    /\ rres = <<>>

\* main: header(&v)
ParseHeader ==
    /\ pc = "start"
    /\ hres' = header(input, 1)
    /\ pc' = IF hres'.st = "Done" THEN "parsed" ELSE "failed"
    /\ UNCHANGED <<lines, input, kind, bres, rres>>

\* main: body(remaining, &header)
DecodeBody ==
    /\ pc = "parsed"
    /\ bres' = body(input, hres.pos, hres.val)
    /\ pc' = "decoded"
    /\ UNCHANGED <<lines, input, kind, hres, rres>>

\* the Header written back as canonical header text and parsed again
Reparse ==
    /\ pc = "parsed"
    /\ rres' = header(Serialize(hres.val), 1)
    /\ pc' = "reparsed"
    /\ UNCHANGED <<lines, input, kind, hres, bres>>

Next == ParseHeader \/ DecodeBody \/ Reparse

Spec == Init /\ [][Next]_vars

\* ---------------------------------------------------------------- data_type and property alone
\* the spellings of the data-type table and the DataType each stands for
SpellingTable == {
    <<<<"c", "h", "a", "r">>, "Int8">>, <<<<"i", "n", "t", "8">>, "Int8">>,
    <<<<"u", "c", "h", "a", "r">>, "UInt8">>, <<<<"u", "i", "n", "t", "8">>, "UInt8">>,
    <<<<"s", "h", "o", "r", "t">>, "Int16">>, <<<<"i", "n", "t", "1", "6">>, "Int16">>,
    <<<<"u", "s", "h", "o", "r", "t">>, "UInt16">>, <<<<"u", "i", "n", "t", "1", "6">>, "UInt16">>,
    <<<<"i", "n", "t">>, "Int32">>, <<<<"i", "n", "t", "3", "2">>, "Int32">>,
    <<<<"u", "i", "n", "t">>, "UInt32">>, <<<<"u", "i", "n", "t", "3", "2">>, "UInt32">>,
    <<<<"i", "n", "t", "6", "4">>, "Int64">>, <<<<"u", "i", "n", "t", "6", "4">>, "UInt64">>,
    <<<<"f", "l", "o", "a", "t">>, "Float32">>, <<<<"f", "l", "o", "a", "t", "3", "2">>, "Float32">>,
    <<<<"d", "o", "u", "b", "l", "e">>, "Float64">>, <<<<"f", "l", "o", "a", "t", "6", "4">>, "Float64">> }

SpellingTails == { <<>>, <<"x", "\n">>, <<"8", " ">>, <<"i", "n", "t", "6", "4", " ", "y">> }

PropertyKindTexts == { <<"l", "i", "s", "t", " ", "u", "i", "n", "t", "8", " ", "i", "n", "t", "3", "2">>, <<"l", "i", "s", "t", " ", "u", "c", "h", "a", "r", " ", "i", "n", "t">>, <<"u", "i", "n", "t", "8">>, <<"f", "l", "o", "a", "t">> }

PropertyNames == { <<"v", "e", "r", "t", "e", "x", "_", "i", "n", "d", "i", "c", "e", "s">>, <<"x">> }

PropertyTestInput == <<"p", "r", "o", "p", "e", "r", "t", "y", " ", "l", "i", "s", "t", " ", "u", "i", "n", "t", "8", " ", "i", "n", "t", "3", "2", " ", "v", "e", "r", "t", "e", "x", "_", "i", "n", "d", "i", "c", "e", "s", "\n">>

InitDataType ==
    /\ \/ \E s \in SpellingTable, w \in MultispaceBytes, t \in SpellingTails :
             /\ lines = <<Line("data_type", s[1])>>
             /\ kind = s[2]
             /\ input = s[1] \o <<w>> \o t
             /\ pc = "data_type"
       \/ \E k \in PropertyKindTexts, n \in PropertyNames,
             w1 \in MultispaceBytes, w2 \in MultispaceBytes :
             /\ lines = <<Line("property", k)>>
             /\ kind = "none"
             /\ input = <<"p", "r", "o", "p", "e", "r", "t", "y">> \o <<w1>> \o k \o <<w2>> \o n \o <<"\n">>
             /\ pc = "property"
    /\ hres = <<>>
    /\ bres = <<>>
    /\ rres = <<>>

ApplyDataType ==
    /\ pc = "data_type"
    /\ bres' = data_type(input, 1)
    /\ pc' = "done_data_type"
    /\ UNCHANGED <<lines, input, kind, hres, rres>>

\* parse_category_test: property(input)
ApplyProperty ==
    /\ pc = "property"
    /\ bres' = property(input, 1)
    /\ pc' = "done_property"
    /\ UNCHANGED <<lines, input, kind, hres, rres>>

NextDataType == ApplyDataType \/ ApplyProperty

SpecDataType == InitDataType /\ [][NextDataType]_vars

\* ---------------------------------------------------------------- ascii_value alone
MaxRun == 2

AsciiTokens == { <<"1", ".", "0">>, <<"2">>, <<"-", "0", ".", "5">> }

InitAscii ==
    /\ \E t1 \in AsciiTokens, t2 \in AsciiTokens,
          run \in SeqsUpTo(MultispaceBytes, MaxRun) \ {<<>>} :
          /\ lines = <<Line("token", t1), Line("run", run), Line("token", t2)>>
          /\ input = t1 \o run \o t2 \o <<"\n">>
    /\ kind \in ValueKind
    /\ pc = "ascii_value"
    /\ hres = <<>>
    /\ bres = <<>>
    /\ rres = <<>>

ApplyAsciiValue ==
    /\ pc = "ascii_value"
    /\ bres' = ascii_value(input, 1, kind)
    /\ pc' = "done_ascii_value"
    /\ UNCHANGED <<lines, input, kind, hres, rres>>

NextAscii == ApplyAsciiValue

SpecAscii == InitAscii /\ [][NextAscii]_vars

\* ---------------------------------------------------------------- properties
LineKinds(ks) == {i \in DOMAIN lines : lines[i].k \in ks}

Parsed == pc \in {"parsed", "decoded", "reparsed"}

RECURSIVE SumCounts(_)
\* the number of values the schema calls for: the sum over the elements of
\* count times the number of properties
SumCounts(es) ==
    IF es = <<>> THEN 0
    ELSE Head(es).count * Len(Head(es).properties) + SumCounts(Tail(es))

\* the values a finished body call hands back
ValuesYielded(r) == <<r.val>>

\* C1: a successful decode_body yields one value per property, per record, per
\* element: as many values as the sum over the elements of count times the
\* number of properties.
C1_OneValuePerPropertyPerRecord ==
    (pc = "decoded" /\ bres.st = "Done")
        => Len(ValuesYielded(bres)) = SumCounts(hres.val.elements)

\* C2: decode_body consumes no more than the schema demands: with every element
\* count 0 a successful decode consumes zero bytes.
C2_NothingConsumedForZeroCounts ==
    (pc = "decoded" /\ bres.st = "Done"
        /\ \A i \in DOMAIN hres.val.elements : hres.val.elements[i].count = 0)
        => bres.pos = hres.pos

\* C3: for every format kind and body, decoding ends in a returned result
\* (success or an error value) and never in an abort.
C3_DecodeNeverAborts ==
    pc = "decoded" => bres.st \in {"Done", "Error", "Incomplete"}

\* C5: comments are accepted only between the format line and the first
\* element: a header parses only if none of its comment lines follows an
\* element or property line, and then every comment line is in Header.comments.
C5_CommentsOnlyBeforeElements ==
    Parsed =>
        /\ \A i \in LineKinds({"element", "property", "property_unknown"}) :
              \A j \in LineKinds({"comment"}) : j < i
        /\ Len(hres.val.comments) = Cardinality(LineKinds({"comment"}))

C5_Witness ==
    /\ pc = "failed"
    /\ Len(lines) = 4
    /\ lines[1].k = "format" /\ lines[2].k = "element"
    /\ lines[3].k = "property" /\ lines[4].k = "comment"

\* C6: a parsed Header has at least one Element and every Element at least one
\* Property; a header text with no element line, or with an element line not
\* followed by a property line, is rejected.
C6_ElementsAndPropertiesNonEmpty ==
    /\ Parsed =>
          /\ Len(hres.val.elements) >= 1
          /\ \A i \in DOMAIN hres.val.elements :
                Len(hres.val.elements[i].properties) >= 1
    /\ (pc # "start"
         /\ \/ LineKinds({"element"}) = {}
            \/ \E i \in LineKinds({"element"}) :
                  i = Len(lines) \/ lines[i + 1].k \notin {"property", "property_unknown"})
          => pc = "failed"

C6_Witness ==
    /\ pc = "failed"
    /\ Len(lines) = 4
    /\ lines[1].k = "format" /\ lines[2].k = "element"
    /\ lines[3].k = "element" /\ lines[4].k = "property"

\* C7: an unknown format-kind or data-type spelling makes the parse fail with
\* no Header, partial or defaulted.
C7_UnknownSpellingsRejected ==
    (pc # "start" /\ LineKinds({"format_unknown", "property_unknown"}) # {})
        => pc = "failed" /\ hres.st # "Done" /\ hres.val = <<>>

C7_Witness ==
    /\ pc = "failed"
    /\ Len(lines) = 4
    /\ lines[1].k = "format" /\ lines[2].k = "element"
    /\ lines[3].k = "property" /\ lines[4].k = "property_unknown"

\* C8: parsing, writing the Header back as canonical header text and parsing
\* that text yields a Header equal to the first (comments, counts, property
\* order included).
C8_HeaderRoundTrip ==
    pc = "reparsed" => rres.st = "Done" /\ rres.val = hres.val

C8_Witness ==
    /\ pc = "reparsed"
    /\ rres.st = "Done"
    /\ hres.val.comments # <<>>
    /\ hres.val.format.kind = "BigEndian"
    /\ \E i \in DOMAIN hres.val.elements :
          \E j \in DOMAIN hres.val.elements[i].properties :
             hres.val.elements[i].properties[j].kind[1] = "List"
    /\ Serialize(hres.val) # SubSeq(input, 1, hres.pos - 1)

\* C10: after a successful parse the remaining input is empty or begins with a
\* byte that is not whitespace: the whole run after end_header is consumed.
C10_RemainingStartsAfterWhitespace ==
    Parsed => hres.pos > Len(input) \/ input[hres.pos] \notin MultispaceBytes

C10_Witness ==
    /\ pc = "parsed"
    /\ hres.val.format.kind = "LittleEndian"
    /\ Rest(input, hres.pos) = <<"0x00", "0x00", "0x80", "?">>
    /\ input[hres.pos - 1] = " "

\* C4: data_type applied to a spelling of the table followed by whitespace
\* consumes the whole spelling and returns the table's DataType, and the
\* property line of parse_category_test parses to List(UInt8, Int32) named
\* vertex_indices.
C4_SpellingsResolve ==
    /\ pc = "done_data_type" => bres = Done(Len(lines[1].text) + 1, kind)
    /\ (pc = "done_property" /\ input = PropertyTestInput)
          => /\ bres.st = "Done"
             /\ bres.pos = Len(input) + 1
             /\ bres.val = [name |-> <<"v", "e", "r", "t", "e", "x", "_", "i", "n", "d", "i", "c", "e", "s">>,
                            kind |-> <<"List", "UInt8", "Int32">>]

C4_Witness ==
    /\ pc = "done_data_type"
    /\ lines[1].text = <<"u", "i", "n", "t", "1", "6">>
    /\ input[Len(lines[1].text) + 1] = "\t"
    /\ bres.val = "UInt16"

\* C9: for two numeric tokens separated by any non-empty run of whitespace
\* (space, tab, CR, LF), ascii_value returns the first token's value and leaves
\* the input at the first byte of the second token.
C9_WhitespaceSeparatesUniformly ==
    (pc = "done_ascii_value" /\ kind = "Float32")
        => /\ bres.st = "Done"
           /\ bres.val.v = f32_from_str(lines[1].text).val
           /\ bres.pos = Len(lines[1].text) + Len(lines[2].text) + 1
====
